---- MODULE Spec2Model ----
(***************************************************************************)
(* Model of mandel.c: the escape-time evaluator (iterations_at_point,      *)
(* iteration_to_color) and the banded multi-threaded renderer (main,       *)
(* compute_image).                                                         *)
(*                                                                         *)
(* A C double is modelled by the exact fraction <<n, d>> (d > 0, lowest    *)
(* terms).  Inputs are restricted to values on which IEEE-754 double       *)
(* arithmetic is exact (see Representable), so the fraction is the double. *)
(* A C int is a 32-bit two's complement integer.                           *)
(***************************************************************************)
EXTENDS Integers, Sequences, FiniteSets, TLC

(***************************************************************************)
(* Bounds of the model.                                                    *)
(***************************************************************************)
\* evaluator inputs: points of the integer grid -GridMax..GridMax squared
GridMax == 3
\* evaluator inputs: every iteration cap 0..MaxIter; renderer inputs: -m 0 and
\* -m MaxIter
MaxIter == 6
\* renderer inputs: -n 1..MaxThreads, -W 1..MaxWidth, -H 1..MaxHeight
MaxThreads == 4
MaxWidth == 2
MaxHeight == 4

VARIABLES
    ex, ey, emax,   \* iterations_at_point: the arguments x, y (as passed), max
    zx, zy,         \* iterations_at_point: the locals x, y (x0, y0 keep ex, ey)
    eiter,          \* iterations_at_point: the local iter
    epc,            \* iterations_at_point: "loop", "returned", "fpe"
    ecolor          \* iterations_at_point: the value returned

evars == <<ex, ey, emax, zx, zy, eiter, epc, ecolor>>

VARIABLES
    cfg,            \* main: xcenter, ycenter, scale, image_width, image_height,
                    \*       max, threads as the command line left them
    pc,             \* main: "idle", "dispatch", "join", "save", "done", "crashed"
    bm,             \* the bitmap: NoBitmap, or the colour of each cell <<i, j>>
    ycenter,        \* main: the local ycenter (line 116 changes it)
    yscale,         \* main: the local yscale
    activeThreads,  \* main: the local activeThreads
    args,           \* main: args[k], k in 0..threads; the array ends at threads-1
    tid,            \* main: tid[k], k in 0..threads; the array ends at threads-1
    wpc,            \* thread k: "unborn", "start", "loop", "exited"
    wloc,           \* thread k: the locals width, height, start, i, j
    exit,           \* main: the exit status, NoExit while running
    writes,         \* history: per cell, the threads that called bitmap_set on it
    joined,         \* history: the threads a pthread_join returned 0 for
    log,            \* history: the failures printed, <<"create", k>>, <<"join", k>>
    oob,            \* history: the indexes used outside 0..threads-1
    trace,          \* history: main's calls in order, <<"create", k>>,
                    \*          <<"join", k>>, <<"save">>
    stray           \* history: the <<i, j>> of bitmap_set calls outside the bitmap

rvars == <<cfg, pc, bm, ycenter, yscale, activeThreads, args, tid, wpc, wloc,
           exit, writes, joined, log, oob, trace, stray>>

vars == <<rvars, evars>>

(***************************************************************************)
(* int arithmetic (32-bit two's complement).                               *)
(***************************************************************************)
IntMax == 2147483647
Half == 256 * 256

\* a * i as the 32-bit multiply computes it, for 0 <= a < 2^15, 0 <= i <= IntMax:
\* the product modulo 2^32, read as a signed value.  The product is built from
\* 16-bit halves so that no intermediate value leaves the 32-bit range.
Mul32(a, i) ==
    LET il  == i % Half
        ih  == i \div Half
        low == a * il
        lo  == low % Half
        hi  == (a * ih + (low \div Half)) % Half
    IN  IF hi >= Half \div 2 THEN (hi - Half) * Half + lo ELSE hi * Half + lo

\* C integer division by b > 0: the quotient truncated toward zero
CDiv(a, b) ==
    IF a < 0 /\ a % b /= 0 THEN (a \div b) + 1 ELSE a \div b

(***************************************************************************)
(* double arithmetic on exact fractions.                                   *)
(***************************************************************************)
RECURSIVE Gcd(_, _)
Gcd(a, b) == IF b = 0 THEN a ELSE Gcd(b, a % b)

Abs(n) == IF n < 0 THEN -n ELSE n

\* the fraction n/d (d /= 0) in lowest terms with a positive denominator
Frac(n, d) ==
    LET g == Gcd(Abs(n), Abs(d))
        s == IF d < 0 THEN -1 ELSE 1
    IN  <<s * (n \div g), s * (d \div g)>>

\* conversion int -> double (exact for every 32-bit int)
IntToDouble(n) == <<n, 1>>
\* conversion double -> int: truncation toward zero
DoubleToInt(p) == CDiv(p[1], p[2])

DAdd(p, q) == Frac(p[1] * q[2] + q[1] * p[2], p[2] * q[2])
DSub(p, q) == Frac(p[1] * q[2] - q[1] * p[2], p[2] * q[2])
DMul(p, q) == Frac(p[1] * q[1], p[2] * q[2])
DDiv(p, q) == Frac(p[1] * q[2], p[2] * q[1])
DLeq(p, q) == p[1] * q[2] <= q[1] * p[2]
DLess(p, q) == p[1] * q[2] < q[1] * p[2]

RECURSIVE IsPow2(_)
IsPow2(d) == IF d = 1 THEN TRUE ELSE IF d % 2 = 1 THEN FALSE ELSE IsPow2(d \div 2)

\* a fraction that a double holds exactly (within the magnitudes of the model)
Representable(p) == IsPow2(p[2])
IsIntegral(p) == p[2] = 1

(***************************************************************************)
(* Colours.  MAKE_RGBA(r,g,b,a) comes from bitmap.h; the colour is kept as *)
(* the tuple of its four channels.                                         *)
(***************************************************************************)
MAKE_RGBA(r, g, b, a) == <<r, g, b, a>>

\* the value a division by zero leaves instead of a result (SIGFPE)
FPE == <<"SIGFPE">>
IsFPE(value) == Len(value) = 1

(***************************************************************************)
(* iteration_to_color: gray = 255*i/max in int arithmetic.                 *)
(***************************************************************************)
Gray(i, max) == CDiv(Mul32(255, i), max)

iteration_to_color(i, max) ==
    IF max = 0 THEN FPE
    ELSE LET gray == Gray(i, max) IN MAKE_RGBA(gray, gray, gray, 0)

(***************************************************************************)
(* iterations_at_point: the while loop, then the colour.                   *)
(***************************************************************************)
\* the loop test with the escape radius taken for its square (4 for 2)
LoopCondRadius4(x, y, iter, max) ==
    DLeq(DAdd(DMul(x, x), DMul(y, y)), IntToDouble(16)) /\ iter < max

\* the loop test: x*x + y*y <= 4 && iter < max
LoopCond(x, y, iter, max) ==
    DLeq(DAdd(DMul(x, x), DMul(y, y)), IntToDouble(4)) /\ iter < max

\* one pass of the loop body: the new <<x, y>>
LoopBody(x, y, x0, y0) ==
    LET xt == DAdd(DSub(DMul(x, x), DMul(y, y)), x0)
        yt == DAdd(DMul(DMul(IntToDouble(2), x), y), y0)
    IN  <<xt, yt>>

\* the value of iter when the loop, entered at (x, y, iter), ends.  A pass that
\* leaves (x, y) unchanged is repeated unchanged by every later pass, so the
\* loop then ends exactly when iter reaches max: the model takes those passes
\* at once instead of one by one.
RECURSIVE IterLoop(_, _, _, _, _, _)
IterLoop(x, y, x0, y0, iter, max) ==
    IF LoopCond(x, y, iter, max)
    THEN LET z == LoopBody(x, y, x0, y0)
         IN  IF z = <<x, y>> THEN max
             ELSE IterLoop(z[1], z[2], x0, y0, iter + 1, max)
    ELSE iter

IterCount(x, y, max) == IterLoop(x, y, x, y, 0, max)

iterations_at_point(x, y, max) == iteration_to_color(IterCount(x, y, max), max)

(***************************************************************************)
(* The evaluator on its own: one call of iterations_at_point per           *)
(* behaviour, the arguments drawn from EvalInputs.                         *)
(***************************************************************************)
\* the default of -m
DefaultMax == 1000
\* the iteration cap of the 4 x 4 scenario
ScenarioMax == 50

Grid == (0 - GridMax)..GridMax
SmallMaxes == (0..MaxIter) \cup {ScenarioMax, DefaultMax}
\* the largest cap whose 255*iter still fits an int, the next one, and INT_MAX
LargeMaxes == {IntMax \div 255, (IntMax \div 255) + 1, IntMax}
\* points whose orbit reaches a fixed point inside radius 2
FixedOrbitPoints == {<<0, 0>>, <<0 - 2, 0>>}

EvalInputs ==
    {<<x, y, m>> : x \in Grid, y \in Grid, m \in SmallMaxes}
        \cup {<<p[1], p[2], m>> : p \in FixedOrbitPoints, m \in LargeMaxes}

NoColor == <<"none">>

\* the call with the orbit started at 0 instead of at the point
EvalInitFromZero ==
    /\ \E inp \in EvalInputs :
         /\ ex = IntToDouble(inp[1])
         /\ ey = IntToDouble(inp[2])
         /\ emax = inp[3]
    /\ zx = IntToDouble(0)
    /\ zy = IntToDouble(0)
    /\ eiter = 0
    /\ epc = "loop"
    /\ ecolor = NoColor

\* lines 198-203: the call; x0 = x, y0 = y, iter = 0
EvalInit ==
    /\ \E inp \in EvalInputs :
         /\ ex = IntToDouble(inp[1])
         /\ ey = IntToDouble(inp[2])
         /\ emax = inp[3]
    /\ zx = ex
    /\ zy = ey
    /\ eiter = 0
    /\ epc = "loop"
    /\ ecolor = NoColor

\* lines 205-214: the loop test holds, one pass of the body
EvalPass ==
    /\ epc = "loop"
    /\ LoopCond(zx, zy, eiter, emax)
    /\ LET z == LoopBody(zx, zy, ex, ey)
       IN  /\ zx' = z[1]
           /\ zy' = z[2]
           /\ eiter' = IF z = <<zx, zy>> THEN emax ELSE eiter + 1
    /\ UNCHANGED <<rvars, ex, ey, emax, epc, ecolor>>

\* lines 205, 216: the loop test fails, return iteration_to_color(iter,max)
EvalReturn ==
    /\ epc = "loop"
    /\ ~LoopCond(zx, zy, eiter, emax)
    /\ ecolor' = iteration_to_color(eiter, emax)
    /\ epc' = IF emax = 0 THEN "fpe" ELSE "returned"
    /\ UNCHANGED <<rvars, ex, ey, emax, zx, zy, eiter>>

EvalNext == EvalPass \/ EvalReturn

(***************************************************************************)
(* The renderer: main and the threads running compute_image.               *)
(***************************************************************************)
NoBitmap == <<"no bitmap">>
NoExit == <<"running">>
\* an element of args that was never assigned
Unset == <<"unset">>
\* a pthread_t that no pthread_create has stored
Indeterminate == <<"indeterminate">>
\* the pthread_t of thread k, and the thread of a pthread_t
Handle(k) == <<"thread", k>>
ThreadOf(h) == h[2]
NoLocals == <<"no locals">>

\* bitmap_create, bitmap_width, bitmap_height, bitmap_set (bitmap.h): a grid of
\* width x height cells, each holding the colour last set
Cells(width, height) == (0..(width - 1)) \X (0..(height - 1))
bitmap_width(c) == c.image_width
bitmap_height(c) == c.image_height
bitmap_set(m, i, j, value) ==
    IF <<i, j>> \in DOMAIN m THEN [m EXCEPT ![<<i, j>>] = value] ELSE m

\* line 105: the colour the bitmap is filled with before the threads run
Sentinel == MAKE_RGBA(0, 0, 255, 0)

\* line 115: yscale = scale / threads
YScale(scale, threads) == DDiv(scale, IntToDouble(threads))
\* line 116: ycenter = ycenter - yscale
YCenterShifted(yc, ysc) == DSub(yc, ysc)

\* lines 123-130: the argument record of thread number k
ThreadArgs(c, yc, ysc, k) ==
    [xmin    |-> DSub(c.xcenter, c.scale),
     xmax    |-> DAdd(c.xcenter, c.scale),
     ymin    |-> DSub(yc, ysc),
     ymax    |-> DAdd(yc, ysc),
     max     |-> IntToDouble(c.max),
     threads |-> c.threads,
     tnumber |-> k]

\* the band height without the division by threads
BandHeightWhole(h, threads) == h
\* the band height rounded up instead of down
BandHeightRoundedUp(h, threads) == CDiv(h + threads - 1, threads)

\* line 170: height = bitmap_height(bm) / threads
BandHeight(h, threads) == CDiv(h, threads)
\* the band start taken from a 0-based thread number
BandStartOneBased(height, tnumber) == height * tnumber
\* each band starting on the last row of the band before it
BandStartOverlapping(height, tnumber) == (height - 1) * (tnumber - 1)

\* line 173: start = height * (tnumber - 1)
BandStart(height, tnumber) == height * (tnumber - 1)
\* line 175: the test of the row loop, j < start + height
RowInBand(j, start, height) == j < start + height
\* line 180: x = xmin + i*(xmax - xmin)/width
PixelX(a, i, width) ==
    DAdd(a.xmin, DDiv(DMul(IntToDouble(i), DSub(a.xmax, a.xmin)), IntToDouble(width)))
\* line 181: y = ymin + j*(ymax - ymin)/height
PixelY(a, j, height) ==
    DAdd(a.ymin, DDiv(DMul(IntToDouble(j), DSub(a.ymax, a.ymin)), IntToDouble(height)))
\* lines 180-184: the colour compute_image gives pixel (i, j)
PixelColor(a, i, j, width, height) ==
    iterations_at_point(PixelX(a, i, width), PixelY(a, j, height), DoubleToInt(a.max))

\* the creation loop stopping one thread short
CreateLoopCondOneShort(active, threads) == active < threads - 1

\* line 119: the test of the creation loop
CreateLoopCond(active, threads) == active < threads
\* the join loop stopping before thread 1
JoinLoopCondSkipsFirst(active) == active > 1

\* line 140: the test of the join loop
JoinLoopCond(active) == active > 0
\* an index outside the arrays args[threads], tid[threads]
OutOfBounds(k, threads) == k < 0 \/ k >= threads

(***************************************************************************)
(* The command lines of the model.  Only those on which every double       *)
(* operation of the render is exact are kept: yscale is a binary fraction  *)
(* and every pixel maps to a point with integer coordinates.               *)
(***************************************************************************)
Centers == {<<IntToDouble(0), IntToDouble(0)>>}
Scales == {IntToDouble(2), IntToDouble(3)}
RenderMaxes == {0, MaxIter}

AllConfigs ==
    [xcenter : {c[1] : c \in Centers}, ycenter : {c[2] : c \in Centers},
     scale : Scales, image_width : 1..MaxWidth, image_height : 1..MaxHeight,
     max : RenderMaxes, threads : 1..MaxThreads]

ExactConfig(c) ==
    LET ysc    == YScale(c.scale, c.threads)
        a      == ThreadArgs(c, YCenterShifted(c.ycenter, ysc), ysc, 1)
        height == BandHeight(c.image_height, c.threads)
    IN  /\ Representable(ysc)
        /\ \A i \in 0..(c.image_width - 1) : IsIntegral(PixelX(a, i, c.image_width))
        /\ \A j \in 0..(c.threads * height - 1) : IsIntegral(PixelY(a, j, height))

RenderConfigs == {c \in AllConfigs : ExactConfig(c)}

Threads == 1..cfg.threads
Alive == pc \notin {"done", "crashed"}

RenderInit ==
    /\ cfg \in RenderConfigs
    /\ pc = "idle"
    /\ bm = NoBitmap
    /\ ycenter = cfg.ycenter
    /\ yscale = IntToDouble(0)
    /\ activeThreads = 0
    /\ args = [k \in 0..cfg.threads |-> Unset]
    /\ tid = [k \in 0..cfg.threads |-> Indeterminate]
    /\ wpc = [k \in 1..cfg.threads |-> "unborn"]
    /\ wloc = [k \in 1..cfg.threads |-> NoLocals]
    /\ exit = NoExit
    /\ writes = [c \in Cells(cfg.image_width, cfg.image_height) |-> <<>>]
    /\ joined = {}
    /\ log = {}
    /\ oob = {}
    /\ trace = <<>>
    /\ stray = {}

\* lines 101-116: create and fill the bitmap, activeThreads = 0, yscale, ycenter
Setup ==
    /\ pc = "idle"
    /\ bm' = [c \in Cells(cfg.image_width, cfg.image_height) |-> Sentinel]
    /\ activeThreads' = 0
    /\ yscale' = YScale(cfg.scale, cfg.threads)
    /\ ycenter' = YCenterShifted(ycenter, YScale(cfg.scale, cfg.threads))
    /\ pc' = "dispatch"
    /\ UNCHANGED <<evars, cfg, args, tid, wpc, wloc, exit, writes, joined, log, oob,
                   trace, stray>>

\* lines 119-137: one pass of the creation loop.  pthread_create either starts
\* the thread and stores its handle, or fails, stores nothing and is reported.
Dispatch ==
    /\ pc = "dispatch"
    /\ CreateLoopCond(activeThreads, cfg.threads)
    /\ LET k == activeThreads + 1
       IN  /\ activeThreads' = k
           /\ args' = [args EXCEPT ![k] = ThreadArgs(cfg, ycenter, yscale, k)]
           /\ oob' = IF OutOfBounds(k, cfg.threads) THEN oob \cup {k} ELSE oob
           /\ trace' = Append(trace, <<"create", k>>)
           /\ \/ /\ tid' = [tid EXCEPT ![k] = Handle(k)]
                 /\ wpc' = [wpc EXCEPT ![k] = "start"]
                 /\ log' = log
              \/ /\ log' = log \cup {<<"create", k>>}
                 /\ UNCHANGED <<tid, wpc>>
    /\ UNCHANGED <<evars, cfg, pc, bm, ycenter, yscale, wloc, exit, writes, joined, stray>>

\* line 119: the creation loop ends
DispatchEnd ==
    /\ pc = "dispatch"
    /\ ~CreateLoopCond(activeThreads, cfg.threads)
    /\ pc' = "join"
    /\ UNCHANGED <<evars, cfg, bm, ycenter, yscale, activeThreads, args, tid, wpc, wloc,
                   exit, writes, joined, log, oob, trace, stray>>

\* lines 140-147: one pass of the join loop on a handle pthread_create stored:
\* pthread_join returns 0 once that thread has ended
Join ==
    /\ pc = "join"
    /\ JoinLoopCond(activeThreads)
    /\ tid[activeThreads] /= Indeterminate
    /\ wpc[ThreadOf(tid[activeThreads])] = "exited"
    /\ joined' = joined \cup {ThreadOf(tid[activeThreads])}
    /\ oob' = IF OutOfBounds(activeThreads, cfg.threads)
              THEN oob \cup {activeThreads} ELSE oob
    /\ trace' = Append(trace, <<"join", activeThreads>>)
    /\ activeThreads' = activeThreads - 1
    /\ UNCHANGED <<evars, cfg, pc, bm, ycenter, yscale, args, tid, wpc, wloc, exit,
                   writes, log, stray>>

\* lines 140-147: one pass of the join loop on a handle no pthread_create
\* stored (the creation failed).  pthread_join of an indeterminate pthread_t
\* is undefined: it returns an error, which is reported, or the process dies.
JoinIndeterminate ==
    /\ pc = "join"
    /\ JoinLoopCond(activeThreads)
    /\ tid[activeThreads] = Indeterminate
    /\ oob' = IF OutOfBounds(activeThreads, cfg.threads)
              THEN oob \cup {activeThreads} ELSE oob
    /\ \/ /\ log' = log \cup {<<"join", activeThreads>>}
          /\ activeThreads' = activeThreads - 1
          /\ UNCHANGED <<pc, exit>>
       \/ /\ pc' = "crashed"
          /\ exit' = 139
          /\ UNCHANGED <<log, activeThreads>>
    /\ trace' = Append(trace, <<"join", activeThreads>>)
    /\ UNCHANGED <<evars, cfg, bm, ycenter, yscale, args, tid, wpc, wloc, writes, joined,
                   stray>>

\* line 140: the join loop ends
JoinEnd ==
    /\ pc = "join"
    /\ ~JoinLoopCond(activeThreads)
    /\ pc' = "save"
    /\ UNCHANGED <<evars, cfg, bm, ycenter, yscale, activeThreads, args, tid, wpc, wloc,
                   exit, writes, joined, log, oob, trace, stray>>

\* lines 150-155: bitmap_save, then return 1 or 0; returning from main ends
\* the process
Save ==
    /\ pc = "save"
    /\ pc' = "done"
    /\ \E status \in {0, 1} : exit' = status
    /\ trace' = Append(trace, <<"save">>)
    /\ UNCHANGED <<evars, cfg, bm, ycenter, yscale, activeThreads, args, tid, wpc, wloc,
                   writes, joined, log, oob, stray>>

\* lines 123-134 stored args[threads] and tid[threads], one element past the
\* end of both arrays.  What that store overwrites is not defined; builds of
\* this file with gcc -O1 and higher lose main's index and handles to it and
\* die with SIGSEGV in the join loop, while the threads are still running.
StackSmashed ==
    /\ pc = "join"
    /\ oob /= {}
    /\ pc' = "crashed"
    /\ exit' = 139
    /\ UNCHANGED <<evars, cfg, bm, ycenter, yscale, activeThreads, args, tid, wpc, wloc,
                   writes, joined, log, oob, trace, stray>>

\* every thread handed the record main is currently filling, not its own
SharedArgument(k) == args[activeThreads]

\* line 167: struct thread_args *args = a, the record main passed to thread k
ThreadArgument(k) == args[k]

\* lines 165-175: thread k enters compute_image and reads its arguments
WorkerStart(k) ==
    /\ Alive
    /\ wpc[k] = "start"
    /\ LET a      == ThreadArgument(k)
           height == BandHeight(bitmap_height(cfg), a.threads)
           start  == BandStart(height, a.tnumber)
       IN  wloc' = [wloc EXCEPT ![k] =
                       [width |-> bitmap_width(cfg), height |-> height,
                        start |-> start, i |-> 0, j |-> start]]
    /\ wpc' = [wpc EXCEPT ![k] = "loop"]
    /\ UNCHANGED <<evars, cfg, pc, bm, ycenter, yscale, activeThreads, args, tid, exit,
                   writes, joined, log, oob, trace, stray>>

\* lines 175-189: thread k computes one pixel and sets it.  A division by
\* zero in iteration_to_color ends the process.
WorkerPixel(k) ==
    /\ Alive
    /\ wpc[k] = "loop"
    /\ LET l == wloc[k]
           value == PixelColor(ThreadArgument(k), l.i, l.j, l.width, l.height)
       IN  /\ RowInBand(l.j, l.start, l.height)
           /\ IF IsFPE(value)
              THEN /\ pc' = "crashed"
                   /\ exit' = 136
                   /\ UNCHANGED <<bm, writes, wloc, stray>>
              ELSE /\ bm' = bitmap_set(bm, l.i, l.j, value)
                   /\ writes' = IF <<l.i, l.j>> \in DOMAIN writes
                                THEN [writes EXCEPT ![<<l.i, l.j>>] = Append(@, k)]
                                ELSE writes
                   /\ stray' = IF <<l.i, l.j>> \in DOMAIN bm
                               THEN stray ELSE stray \cup {<<l.i, l.j>>}
                   /\ wloc' = [wloc EXCEPT ![k] =
                                 IF l.i + 1 < l.width
                                 THEN [l EXCEPT !.i = l.i + 1]
                                 ELSE [l EXCEPT !.i = 0, !.j = l.j + 1]]
                   /\ UNCHANGED <<pc, exit>>
    /\ UNCHANGED <<evars, cfg, ycenter, yscale, activeThreads, args, tid, wpc, joined,
                   log, oob, trace>>

\* lines 175, 190: the row loop ends, pthread_exit
WorkerExit(k) ==
    /\ Alive
    /\ wpc[k] = "loop"
    /\ ~RowInBand(wloc[k].j, wloc[k].start, wloc[k].height)
    /\ wpc' = [wpc EXCEPT ![k] = "exited"]
    /\ UNCHANGED <<evars, cfg, pc, bm, ycenter, yscale, activeThreads, args, tid, wloc,
                   exit, writes, joined, log, oob, trace, stray>>

Next ==
    \/ Setup
    \/ Dispatch
    \/ DispatchEnd
    \/ Join
    \/ JoinIndeterminate
    \/ JoinEnd
    \/ Save
    \/ StackSmashed
    \/ \E k \in Threads : WorkerStart(k)
    \/ \E k \in Threads : WorkerPixel(k)
    \/ \E k \in Threads : WorkerExit(k)

\* the evaluator's variables while the renderer runs, and the renderer's
\* while the evaluator is called on its own
EvalIdle ==
    /\ ex = IntToDouble(0)
    /\ ey = IntToDouble(0)
    /\ emax = 0
    /\ zx = IntToDouble(0)
    /\ zy = IntToDouble(0)
    /\ eiter = 0
    /\ epc = "idle"
    /\ ecolor = NoColor

RenderIdle ==
    /\ cfg = CHOOSE c \in RenderConfigs : TRUE
    /\ pc = "off"
    /\ bm = NoBitmap
    /\ ycenter = IntToDouble(0)
    /\ yscale = IntToDouble(0)
    /\ activeThreads = 0
    /\ args = <<>>
    /\ tid = <<>>
    /\ wpc = <<>>
    /\ wloc = <<>>
    /\ exit = NoExit
    /\ writes = <<>>
    /\ joined = {}
    /\ log = {}
    /\ oob = {}
    /\ trace = <<>>
    /\ stray = {}

Init == RenderInit /\ EvalIdle
Spec == Init /\ [][Next]_vars

InitEval == EvalInit /\ RenderIdle
SpecEval == InitEval /\ [][EvalNext]_vars

(***************************************************************************)
(* Notions the properties below are stated with.  They are computed from   *)
(* the configuration, not from the threads' locals.                        *)
(***************************************************************************)
\* the renderer has left the join loop: the bitmap is being, or was, saved
Finished == pc \in {"save", "done"}
\* image_height is a multiple of threads
Divides == cfg.image_height % cfg.threads = 0
RowsPerBand == cfg.image_height \div cfg.threads
\* the first row no band reaches
Boundary == cfg.threads * RowsPerBand
\* the rows of band t
BandRows(t) == {j \in 0..(cfg.image_height - 1) :
                  RowsPerBand * (t - 1) <= j /\ j < RowsPerBand * t}
\* the colour compute_image gives cell <<i, j>> when thread t renders it
ExpectedColor(t, cell) ==
    LET ysc == YScale(cfg.scale, cfg.threads)
    IN  PixelColor(ThreadArgs(cfg, YCenterShifted(cfg.ycenter, ysc), ysc, t),
                   cell[1], cell[2], cfg.image_width, RowsPerBand)
\* a thread that has started or finished compute_image
Running(k) == wpc[k] \in {"loop", "exited"}

(***************************************************************************)
(* C1: no cell is written twice or by two threads, in any interleaving;    *)
(* the row ranges [start, start + height) of the threads of one render are *)
(* pairwise disjoint.                                                      *)
(***************************************************************************)
C1_DisjointBands ==
    /\ \A c \in DOMAIN writes : Len(writes[c]) <= 1
    /\ \A k1 \in Threads, k2 \in Threads :
         (k1 /= k2 /\ Running(k1) /\ Running(k2)) =>
            \/ wloc[k1].start + wloc[k1].height <= wloc[k2].start
            \/ wloc[k2].start + wloc[k2].height <= wloc[k1].start

\* two threads are in their loops at the same time, each having set a cell
C1_Witness ==
    \E k1 \in Threads, k2 \in Threads :
       /\ k1 /= k2
       /\ wpc[k1] = "loop" /\ wpc[k2] = "loop"
       /\ \E c1 \in DOMAIN writes, c2 \in DOMAIN writes :
             writes[c1] = <<k1>> /\ writes[c2] = <<k2>>

(***************************************************************************)
(* C2: when threads divides image_height and every thread was created and  *)
(* joined, the bands are exactly the rows 0..image_height-1 and every cell *)
(* has been set exactly once, none still holding the fill colour.          *)
(***************************************************************************)
C2_FullCover ==
    (Divides /\ joined = Threads) =>
       /\ UNION {wloc[k].start..(wloc[k].start + wloc[k].height - 1) : k \in Threads}
             = 0..(cfg.image_height - 1)
       /\ \A c \in DOMAIN bm : Len(writes[c]) = 1 /\ bm[c] /= Sentinel

\* two or more threads, all joined, the bitmap about to be saved
C2_Witness ==
    /\ pc = "save"
    /\ Divides
    /\ cfg.threads >= 2
    /\ joined = Threads

(***************************************************************************)
(* C3: the bitmap at the end of the join loop does not depend on the       *)
(* interleaving: each cell of a band whose thread ran holds the colour the *)
(* configuration gives it, every other cell the fill colour.               *)
(***************************************************************************)
C3_Deterministic ==
    Finished =>
       \A c \in DOMAIN bm :
          bm[c] = IF \E t \in joined : c[2] \in BandRows(t)
                  THEN ExpectedColor(CHOOSE t \in joined : c[2] \in BandRows(t), c)
                  ELSE Sentinel

\* a render by two or more threads, all joined, with more than one gray level
C3_Witness ==
    /\ pc = "save"
    /\ cfg.threads >= 2
    /\ joined = Threads
    /\ \E c1 \in DOMAIN bm, c2 \in DOMAIN bm :
          bm[c1] /= Sentinel /\ bm[c2] /= Sentinel /\ bm[c1] /= bm[c2]

(***************************************************************************)
(* C4: with threads dividing image_height, the finished bitmap equals the  *)
(* bitmap the same command line renders with -n 1 (each pixel is mapped to *)
(* the same point of the plane whatever the thread count).                 *)
(***************************************************************************)
SingleThreaded == [cfg EXCEPT !.threads = 1]
SingleThreadColor(cell) ==
    LET c1  == SingleThreaded
        ysc == YScale(c1.scale, 1)
    IN  PixelColor(ThreadArgs(c1, YCenterShifted(c1.ycenter, ysc), ysc, 1),
                   cell[1], cell[2], c1.image_width, c1.image_height)

C4_PartitionEquivalence ==
    (Finished /\ Divides /\ joined = Threads /\ SingleThreaded \in RenderConfigs) =>
       \A c \in DOMAIN bm : bm[c] = SingleThreadColor(c)

(***************************************************************************)
(* C5: once the renderer has left the join loop no thread sets a cell any  *)
(* more, whether or not a creation or a join was reported as failed.       *)
(***************************************************************************)
C5_NoWriteAfterJoin ==
    [][Finished => (bm' = bm /\ writes' = writes)]_vars

\* the bitmap is being saved after a reported failure and after some thread
\* has set its cells
C5_Witness ==
    /\ pc = "save"
    /\ log /= {}
    /\ \E c \in DOMAIN writes : writes[c] /= <<>>

(***************************************************************************)
(* C6: a failed creation or join is only reported: the process goes on to  *)
(* save the bitmap, every thread that was created has rendered its whole   *)
(* band and was joined, and the only cells left with the fill colour are   *)
(* those of bands whose thread did not run.                                *)
(***************************************************************************)
C6_FailureOnlyReported ==
    /\ log /= {} => pc /= "crashed"
    /\ Finished =>
          /\ \A k \in Threads : wpc[k] /= "unborn" =>
                /\ k \in joined
                /\ \A c \in DOMAIN bm : c[2] \in BandRows(k) => Len(writes[c]) = 1
          /\ \A c \in DOMAIN bm : bm[c] = Sentinel =>
                \E k \in Threads : c[2] \in BandRows(k) /\ wpc[k] = "unborn"

(***************************************************************************)
(* C7: the rows from threads * (image_height div threads) on are never set *)
(* by any thread and keep the fill colour; there are image_height mod      *)
(* threads of them.  Every row below is set once all threads were joined.  *)
(***************************************************************************)
C7_RemainderRows ==
    /\ \A c \in DOMAIN writes : c[2] >= Boundary => writes[c] = <<>>
    /\ pc /= "idle" =>
          \A c \in DOMAIN bm : c[2] >= Boundary => bm[c] = Sentinel
    /\ (Finished /\ joined = Threads) =>
          /\ \A c \in DOMAIN bm : c[2] < Boundary => (writes[c] /= <<>> /\ bm[c] /= Sentinel)
          /\ Cardinality({j \in 0..(cfg.image_height - 1) :
                            \A i \in 0..(cfg.image_width - 1) : bm[<<i, j>>] = Sentinel})
                = cfg.image_height % cfg.threads

\* threads does not divide image_height, some rows are rendered, all joined
C7_Witness ==
    /\ pc = "save"
    /\ ~Divides
    /\ cfg.threads < cfg.image_height
    /\ joined = Threads

(***************************************************************************)
(* C8: for every point and every max > 0 the gray value returned by        *)
(* iterations_at_point lies in 0..255.                                     *)
(***************************************************************************)
C8_GrayInRange ==
    (epc = "returned" /\ emax > 0) => ecolor[1] \in 0..255

(***************************************************************************)
(* C9: at the point (0, 0) the loop runs max times and the gray value      *)
(* returned is 255, for every max > 0.                                     *)
(***************************************************************************)
C9_OriginIsWhite ==
    (epc = "returned" /\ emax > 0 /\ ex = IntToDouble(0) /\ ey = IntToDouble(0)) =>
       (eiter = emax /\ ecolor = MAKE_RGBA(255, 255, 255, 0))

(***************************************************************************)
(* C10: for a point with x*x + y*y > 4 and max > 0 the loop makes no pass  *)
(* (iter stays 0) and the gray value returned is 0.                        *)
(***************************************************************************)
Outside == DLess(IntToDouble(4), DAdd(DMul(ex, ex), DMul(ey, ey)))

C10_OutsideIsBlack ==
    (Outside /\ emax > 0) =>
       /\ eiter = 0 /\ zx = ex /\ zy = ey
       /\ epc = "returned" => ecolor = MAKE_RGBA(0, 0, 0, 0)

\* a call with a point outside radius 2 has returned
C10_Witness == epc = "returned" /\ Outside /\ emax > 0

(***************************************************************************)
(* C11: a render in which no creation and no join failed ends at the save  *)
(* step: the process never dies on the way, and as long as the bitmap is   *)
(* not being saved some thread or main has a step to take (every thread    *)
(* ends its band, every join returns).                                     *)
(***************************************************************************)
C11_Terminates ==
    log = {} => (pc /= "crashed" /\ (Finished \/ ENABLED Next))

(***************************************************************************)
(* C12: with lo = ycenter - yscale and hi = ycenter + yscale (ycenter as   *)
(* shifted by line 116), the y a thread uses for row j is lo + j*(hi-lo)   *)
(* /image_height; the first row of band t gets lo + 2*yscale*(t-1)/threads;*)
(* every y used lies in [lo, hi) and y increases with the row.             *)
(***************************************************************************)
\* the y thread k computes for row j (line 181)
RowY(k, j) == PixelY(ThreadArgument(k), j, wloc[k].height)
\* the cells some thread has set
Written == {c \in DOMAIN writes : writes[c] /= <<>>}

C12_RowsInterpolate ==
    LET lo == DSub(ycenter, yscale)
        hi == DAdd(ycenter, yscale)
    IN  /\ \A c \in Written :
             LET k == writes[c][1]
                 j == c[2]
                 y == RowY(k, j)
             IN  /\ y = DAdd(lo, DDiv(DMul(IntToDouble(j), DSub(hi, lo)),
                                      IntToDouble(cfg.image_height)))
                 /\ j = wloc[k].start =>
                       y = DAdd(lo, DDiv(DMul(IntToDouble(2 * (k - 1)), yscale),
                                         IntToDouble(cfg.threads)))
                 /\ DLeq(lo, y) /\ DLess(y, hi)
        /\ \A c1 \in Written, c2 \in Written :
             c1[2] < c2[2] => DLess(RowY(writes[c1][1], c1[2]), RowY(writes[c2][1], c2[2]))

(***************************************************************************)
(* C13: the iter that iterations_at_point turns into a colour is the       *)
(* number of completed updates z <- z*z + c of the orbit of c = x + iy,    *)
(* stopped at the first z with |z|^2 > 4 or when the count reaches max,    *)
(* for every max >= 1.  As claimed the orbit starts at z = 0               *)
(* (C13_OrbitFromZero); the code starts it at z = c (C13_OrbitFromC).      *)
(***************************************************************************)
\* z*z + c for complex numbers kept as <<re, im>>
OrbitStep(z, c) ==
    <<DAdd(DSub(DMul(z[1], z[1]), DMul(z[2], z[2])), c[1]),
      DAdd(DMul(IntToDouble(2), DMul(z[1], z[2])), c[2])>>
Norm2(z) == DAdd(DMul(z[1], z[1]), DMul(z[2], z[2]))
Escaped(z) == DLess(IntToDouble(4), Norm2(z))

\* the number of completed updates when the orbit at z, n updates done, stops.
\* An orbit that is back at z after two updates, not escaped in between,
\* alternates for ever and stops only at max.
RECURSIVE OrbitCount(_, _, _, _)
OrbitCount(z, c, n, max) ==
    IF n >= max \/ Escaped(z) THEN n
    ELSE LET z1 == OrbitStep(z, c)
             z2 == OrbitStep(z1, c)
         IN  IF z2 = z /\ ~Escaped(z1) THEN max
             ELSE OrbitCount(z1, c, n + 1, max)

PointC == <<ex, ey>>
Zero == <<IntToDouble(0), IntToDouble(0)>>

C13_OrbitFromZero ==
    (epc = "returned" /\ emax >= 1) => eiter = OrbitCount(Zero, PointC, 0, emax)

C13_OrbitFromC ==
    (epc = "returned" /\ emax >= 1) => eiter = OrbitCount(PointC, PointC, 0, emax)

\* a call that made two or more passes and stopped because the orbit escaped
C13_Witness ==
    epc = "returned" /\ eiter >= 2 /\ eiter < emax /\ Escaped(<<zx, zy>>)

(***************************************************************************)
(* C14: a call with max = 0 never divides by zero and the gray value it    *)
(* returns is 0, at every point.                                           *)
(***************************************************************************)
C14_ZeroMaxIsBlack ==
    emax = 0 =>
       /\ epc /= "fpe"
       /\ epc = "returned" => ecolor = MAKE_RGBA(0, 0, 0, 0)

(***************************************************************************)
(* C15: main moves only forward through idle, dispatch, join, save; the    *)
(* creation of each thread 1..threads is attempted once and never again,   *)
(* no join is attempted before all threads creations were, each thread is  *)
(* joined once and never again, also after a failure, and the save comes   *)
(* after the last join attempt.                                            *)
(***************************************************************************)
PcRank(p) ==
    CASE p = "idle" -> 0
      [] p = "dispatch" -> 1
      [] p = "join" -> 2
      [] p = "save" -> 3
      [] p = "done" -> 4
      [] p = "crashed" -> 5

\* the positions of trace holding a call of the given kind for thread k
Calls(kind, k) ==
    {n \in 1..Len(trace) : trace[n][1] = kind /\ trace[n][1] /= "save" /\ trace[n][2] = k}
Kind(kind) == {n \in 1..Len(trace) : trace[n][1] = kind}

TraceOrdered ==
    /\ \A n \in Kind("create") \cup Kind("join") : trace[n][2] \in Threads
    /\ \A k \in Threads :
          Cardinality(Calls("create", k)) <= 1 /\ Cardinality(Calls("join", k)) <= 1
    /\ \A n \in Kind("join") :
          /\ \A m \in Kind("create") : m < n
          /\ \A k \in Threads : Calls("create", k) /= {}
    /\ \A n \in Kind("save") :
          /\ n = Len(trace)
          /\ \A k \in Threads : Calls("join", k) /= {}
    /\ pc = "idle" => trace = <<>>
    /\ pc = "dispatch" => Kind("join") = {} /\ Kind("save") = {}
    /\ pc = "join" => Kind("save") = {}
    /\ Finished =>
          \A k \in Threads :
             Cardinality(Calls("create", k)) = 1 /\ Cardinality(Calls("join", k)) = 1

PcForward ==
    \/ pc' = pc
    \/ PcRank(pc') = PcRank(pc) + 1
    \/ pc' = "crashed"

C15_ForwardOnly == []TraceOrdered /\ [][PcForward]_vars

\* a render by two or more threads has ended after a failed creation, the
\* join of that thread having failed as well
C15_Witness ==
    /\ pc = "done"
    /\ cfg.threads >= 2
    /\ \E k \in Threads : <<"create", k>> \in log /\ <<"join", k>> \in log

(***************************************************************************)
(* C16: every index main uses on args and tid, storing in the creation     *)
(* loop and reading in the join loop, lies in 0..threads-1.                *)
(***************************************************************************)
C16_IndexesInBounds ==
    /\ oob = {}
    /\ \A n \in Kind("create") \cup Kind("join") : ~OutOfBounds(trace[n][2], cfg.threads)

(***************************************************************************)
(* C17: every bitmap_set of every thread is on a cell of the bitmap,       *)
(* 0 <= i < image_width and 0 <= j < image_height, also when threads does  *)
(* not divide image_height or is larger than it.                           *)
(***************************************************************************)
C17_SetsInsideBitmap ==
    /\ stray = {}
    /\ \A k \in Threads :
          (wpc[k] = "loop" /\ RowInBand(wloc[k].j, wloc[k].start, wloc[k].height)) =>
             /\ 0 <= wloc[k].i /\ wloc[k].i < cfg.image_width
             /\ 0 <= wloc[k].j /\ wloc[k].j < cfg.image_height

\* three or more threads, fewer than the rows and not dividing them evenly:
\* the last thread has set the last cell of its band and ended
C17_Witness ==
    /\ ~Divides
    /\ cfg.threads >= 3
    /\ cfg.threads < cfg.image_height
    /\ wpc[cfg.threads] = "exited"
    /\ writes[<<cfg.image_width - 1, Boundary - 1>>] = <<cfg.threads>>

====
